---- MODULE Spec2Model ----
(***************************************************************************)
(* Sidecar lifecycle and readiness coordinator of the VWork desktop shell  *)
(* (src-tauri/src/lib.rs): setup spawns the sidecar and stores its handle  *)
(* in SidecarState, a background thread polls the port and navigates the   *)
(* webview, and kill_sidecar drains the slot on tray Quit and on the       *)
(* framework's ExitRequested event.                                        *)
(*                                                                         *)
(* Time is counted in ticks of 100 ms, the greatest common divisor of the  *)
(* durations the code uses (200 ms, 300 ms, 1 s, 15 s).                    *)
(***************************************************************************)
EXTENDS Integers, FiniteSets, Sequences, TLC

(* ------------------------------------------------------------------ *)
(* Program constants, in ticks of 100 ms.                               *)
(* ------------------------------------------------------------------ *)

\* const DEFAULT_PORT: u16 = 3141
DEFAULT_PORT == 3141

\* let poll_interval = Duration::from_millis(200)
PollIntervalTicks == 2

\* std::thread::sleep(Duration::from_millis(300)) after a successful connect
SettleTicks == 3

\* connect_timeout(.., Duration::from_secs(1))
ConnectTimeoutTicks == 10

\* wait_for_server(DEFAULT_PORT, Duration::from_secs(15))
RunTimeoutTicks == 150

(* ------------------------------------------------------------------ *)
(* Bounds of the model.                                                 *)
(* ------------------------------------------------------------------ *)

\* how many times the user picks "Quit VWork" before the exit is handled
MaxQuit == 2

\* threads that call kill_sidecar concurrently (specification SpecConc)
NCallers == 2

\* calls of kill_sidecar each concurrent caller makes
MaxCalls == 2

\* largest timeout, in ticks, given to wait_for_server in SpecWait
MaxTimeoutTicks == 4

(* ------------------------------------------------------------------ *)
(* State.                                                               *)
(* ------------------------------------------------------------------ *)

VARIABLES
    platform,     \* cfg(target_os): "macos" or "other"
    mainPc,       \* position of the main thread
    slot,         \* SidecarState's Option<CommandChild>: None or a child id
    lockHolder,   \* thread holding SidecarState's mutex, or NoThread
    kpc,          \* per thread: position inside kill_sidecar
    taken,        \* per thread: what guard.take() returned
    calls,        \* per thread: kill_sidecar calls started
    spawnResult,  \* outcome of spawn_sidecar: "none" before it ran
    spawnCount,   \* child processes created by spawn_sidecar
    childState,   \* the child process: "none", "running", "exited"
    killSignals,  \* child.kill() calls made
    lastKill,     \* result of the last child.kill(): "none", "ok", "err"
    fwd,          \* the output forwarder task: "none", "listening", "done"
    reaps,        \* CommandEvent::Terminated events the forwarder handled
    window,       \* the main webview window: "visible", "hidden", "destroyed"
    exitReq,      \* origin of the pending exit request, or "none"
    quits,        \* tray Quit events handled
    trayBuilt,    \* setup_tray returned Ok
    rpc,          \* position of the readiness thread
    elapsed,      \* start.elapsed() of wait_for_server, in ticks
    timeout,      \* the timeout argument of wait_for_server, in ticks
    connOk,       \* a connect to 127.0.0.1:port has succeeded
    probed,       \* a connect attempt has been started
    waitResult,   \* what wait_for_server returned: "none", "ok", "timeout"
    navCount,     \* w.navigate(..) calls made
    ksDone,       \* kill_sidecar calls that returned
    ksNoop,       \* kill_sidecar calls whose take() found None
    ksTook,       \* kill_sidecar calls whose take() found Some(child)
    slotEverSome, \* the slot has held a child handle
    exitEarly     \* ExitRequested was handled before wait_for_server returned

vars == << platform, mainPc, slot, lockHolder, kpc, taken, calls, spawnResult,
           spawnCount, childState, killSignals, lastKill, fwd, reaps, window,
           exitReq, quits, trayBuilt, rpc, elapsed, timeout, connOk, probed,
           waitResult, navCount, ksDone, ksNoop, ksTook, slotEverSome,
           exitEarly >>

None == 0
NoThread == -1
Main == 0
Callers == 1..NCallers
Threads == {Main} \cup Callers

Platforms == {"macos", "other"}

\* spawn_sidecar: the command cannot be created, the spawn fails, or Ok(child)
SpawnOutcomes == {"ok", "err_command", "err_spawn"}

\* TcpStream::connect_timeout returns within its 1 s budget
ConnectCosts == 0..ConnectTimeoutTicks

mainVars == << platform, mainPc, spawnResult, spawnCount, window, exitReq,
               quits, trayBuilt, slotEverSome, exitEarly >>
killVars == << slot, lockHolder, kpc, taken, killSignals, lastKill, ksDone,
               ksNoop, ksTook >>
childVars == << childState, fwd, reaps >>
waitVars == << rpc, elapsed, timeout, connOk, probed, waitResult >>

(* ------------------------------------------------------------------ *)
(* Initial state: Builder::default()...manage(SidecarState(None)).      *)
(* ------------------------------------------------------------------ *)

Init ==
    /\ platform \in Platforms
    /\ mainPc = "setup_spawn"
    /\ slot = None
    /\ lockHolder = NoThread
    /\ kpc = [t \in Threads |-> "idle"]
    /\ taken = [t \in Threads |-> None]
    /\ calls = [t \in Threads |-> 0]
    /\ spawnResult = "none"
    /\ spawnCount = 0
    /\ childState = "none"
    /\ killSignals = 0
    /\ lastKill = "none"
    /\ fwd = "none"
    /\ reaps = 0
    /\ window = "visible"
    /\ exitReq = "none"
    /\ quits = 0
    /\ trayBuilt = FALSE
    /\ rpc = "none"
    /\ elapsed = 0
    /\ timeout = RunTimeoutTicks
    /\ connOk = FALSE
    /\ probed = FALSE
    /\ waitResult = "none"
    /\ navCount = 0
    /\ ksDone = 0
    /\ ksNoop = 0
    /\ ksTook = 0
    /\ slotEverSome = FALSE
    /\ exitEarly = FALSE

(* ------------------------------------------------------------------ *)
(* The host process: its threads run until run() returns or setup      *)
(* fails.                                                               *)
(* ------------------------------------------------------------------ *)

\* the process is alive: the run loop has not been left (lines 336-343) and
\* setup has not returned Err (line 320)
HostAlive == mainPc \notin {"exited", "aborted"}

\* variant: SidecarState was never handed to .manage(..)
StateNotManaged == FALSE

\* .manage(SidecarState(..)) makes app.try_state::<SidecarState>() Some
StateManaged == TRUE

(* ------------------------------------------------------------------ *)
(* wait_for_server(port, timeout), lines 20-45.                         *)
(* ------------------------------------------------------------------ *)

\* variant: the deadline test off by one, start.elapsed() <= timeout
LoopCondOff(e, t) == e <= t

\* while start.elapsed() < timeout
LoopCond(e, t) == e < t

\* variant: the loop head consults the child handle under the slot's lock
WfsCheckConsultsSlot ==
    /\ HostAlive
    /\ rpc = "check"
    /\ lockHolder = NoThread
    /\ IF LoopCond(elapsed, timeout) /\ slot # None
         THEN /\ rpc' = "connect"
              /\ probed' = TRUE
              /\ waitResult' = waitResult
         ELSE /\ rpc' = "ret_err"
              /\ waitResult' = "timeout"
              /\ probed' = probed
    /\ UNCHANGED << elapsed, timeout, connOk, navCount >>
    /\ UNCHANGED << mainVars, killVars, childVars, calls >>

\* the loop head: enter the body or fall through to Err(..)
WfsCheck ==
    /\ HostAlive
    /\ rpc = "check"
    /\ IF LoopCond(elapsed, timeout)
         THEN /\ rpc' = "connect"
              /\ probed' = TRUE
              /\ waitResult' = waitResult
         ELSE /\ rpc' = "ret_err"
              /\ waitResult' = "timeout"
              /\ probed' = probed
    /\ UNCHANGED << elapsed, timeout, connOk, navCount >>
    /\ UNCHANGED << mainVars, killVars, childVars, calls >>

\* variant: the connect result is not tested
ConnectNextAlwaysOk(ok) == "settle"

\* if let Ok(stream) = connect_timeout(..) { settle } else fall to the sleep
ConnectNext(ok) == IF ok THEN "settle" ELSE "sleep"

\* TcpStream::connect_timeout(127.0.0.1:port, 1 s): Ok(stream) is dropped and
\* the settle sleep follows; Err falls to the poll sleep
WfsConnect ==
    /\ HostAlive
    /\ rpc = "connect"
    /\ \E cost \in ConnectCosts, ok \in BOOLEAN :
         /\ elapsed' = elapsed + cost
         /\ connOk' = (connOk \/ ok)
         /\ rpc' = ConnectNext(ok)
    /\ UNCHANGED << timeout, probed, waitResult, navCount >>
    /\ UNCHANGED << mainVars, killVars, childVars, calls >>

\* variant: the poll sleep is left out
WfsSleepNone ==
    /\ HostAlive
    /\ rpc = "sleep"
    /\ elapsed' = elapsed
    /\ rpc' = "check"
    /\ UNCHANGED << timeout, connOk, probed, waitResult, navCount >>
    /\ UNCHANGED << mainVars, killVars, childVars, calls >>

\* std::thread::sleep(poll_interval)
WfsSleep ==
    /\ HostAlive
    /\ rpc = "sleep"
    /\ elapsed' = elapsed + PollIntervalTicks
    /\ rpc' = "check"
    /\ UNCHANGED << timeout, connOk, probed, waitResult, navCount >>
    /\ UNCHANGED << mainVars, killVars, childVars, calls >>

\* std::thread::sleep(300 ms); return Ok(())
WfsSettle ==
    /\ HostAlive
    /\ rpc = "settle"
    /\ elapsed' = elapsed + SettleTicks
    /\ rpc' = "ret_ok"
    /\ waitResult' = "ok"
    /\ UNCHANGED << timeout, connOk, probed, navCount >>
    /\ UNCHANGED << mainVars, killVars, childVars, calls >>

(* ------------------------------------------------------------------ *)
(* The readiness thread's match on the result, lines 303-317.           *)
(* ------------------------------------------------------------------ *)

\* variant: navigate without looking the window up
NavigateTargetAny(w) == TRUE

\* handle2.get_webview_window("main") is Some while the window exists
NavigateTarget(w) == w # "destroyed"

\* Ok(()) => navigate the webview if the main window exists
ThreadOk ==
    /\ HostAlive
    /\ rpc = "ret_ok"
    /\ navCount' = IF NavigateTarget(window) THEN navCount + 1 ELSE navCount
    /\ rpc' = "done"
    /\ UNCHANGED << elapsed, timeout, connOk, probed, waitResult >>
    /\ UNCHANGED << mainVars, killVars, childVars, calls >>

\* variant: the Err arm kills the sidecar that did not come up
ThreadErrKills ==
    /\ HostAlive
    /\ rpc = "ret_err"
    /\ lockHolder = NoThread
    /\ slot' = None
    /\ killSignals' = IF slot # None THEN killSignals + 1 ELSE killSignals
    /\ rpc' = "done"
    /\ UNCHANGED << elapsed, timeout, connOk, probed, waitResult, navCount >>
    /\ UNCHANGED << lockHolder, kpc, taken, lastKill, ksDone, ksNoop, ksTook >>
    /\ UNCHANGED << mainVars, childVars, calls >>

\* variant: the Err arm navigates too
ThreadErrNavigates ==
    /\ HostAlive
    /\ rpc = "ret_err"
    /\ navCount' = IF NavigateTarget(window) THEN navCount + 1 ELSE navCount
    /\ rpc' = "done"
    /\ UNCHANGED << elapsed, timeout, connOk, probed, waitResult >>
    /\ UNCHANGED << mainVars, killVars, childVars, calls >>

\* Err(e) => eprintln
ThreadErr ==
    /\ HostAlive
    /\ rpc = "ret_err"
    /\ rpc' = "done"
    /\ UNCHANGED << elapsed, timeout, connOk, probed, waitResult, navCount >>
    /\ UNCHANGED << mainVars, killVars, childVars, calls >>

WaitNext == WfsCheck \/ WfsConnect \/ WfsSleep \/ WfsSettle

ThreadNext == WaitNext \/ ThreadOk \/ ThreadErr

(* ------------------------------------------------------------------ *)
(* kill_sidecar(state), lines 88-94, one step per statement, run by     *)
(* thread t.                                                            *)
(* ------------------------------------------------------------------ *)

\* variant: no mutual exclusion on the slot
LockFreeAlways(h) == TRUE

\* Mutex::lock succeeds only while no thread holds the mutex
LockFree(h) == h = NoThread

\* state.0.lock(): blocks until the mutex is free.  No holder of this mutex
\* can panic, so the lock is never poisoned and lock() is Ok.
KsLock(t) ==
    /\ kpc[t] = "lock"
    /\ LockFree(lockHolder)
    /\ lockHolder' = t
    /\ kpc' = [kpc EXCEPT ![t] = "take"]
    /\ UNCHANGED << slot, taken, killSignals, lastKill, ksDone, ksNoop, ksTook >>
    /\ UNCHANGED << mainVars, childVars, waitVars, navCount, calls >>

\* variant: the option is read (cloned) and left in place
TakeLeaves(s) == s

\* Option::take leaves None in the slot
TakeResult(s) == None

\* guard.take() is mem::replace(&mut *guard, None): it reads the option ..
KsTakeRead(t) ==
    /\ kpc[t] = "take"
    /\ taken' = [taken EXCEPT ![t] = slot]
    /\ kpc' = [kpc EXCEPT ![t] = "take_write"]
    /\ UNCHANGED << slot, lockHolder, killSignals, lastKill, ksDone, ksNoop,
                    ksTook >>
    /\ UNCHANGED << mainVars, childVars, waitVars, navCount, calls >>

\* .. and writes None; if let Some(child) goes on to the kill, None skips it
KsTakeWrite(t) ==
    /\ kpc[t] = "take_write"
    /\ slot' = TakeResult(slot)
    /\ IF taken[t] # None
         THEN /\ kpc' = [kpc EXCEPT ![t] = "kill"]
              /\ ksTook' = ksTook + 1
              /\ ksNoop' = ksNoop
         ELSE /\ kpc' = [kpc EXCEPT ![t] = "unlock"]
              /\ ksNoop' = ksNoop + 1
              /\ ksTook' = ksTook
    /\ UNCHANGED << taken, lockHolder, killSignals, lastKill, ksDone >>
    /\ UNCHANGED << mainVars, childVars, waitVars, navCount, calls >>

\* variant: the kill result is unwrapped, so an Err panics in the handler
AfterKillUnwrap(r) == IF r = "err" THEN "panicked" ELSE "unlock"

\* let _ = ..: Ok and Err alike fall to the end of the block
AfterKill(r) == "unlock"

\* variant: a child whose kill failed is put back into the slot
KsKillReinserts(t) ==
    /\ kpc[t] = "kill"
    /\ taken[t] # None
    /\ killSignals' = killSignals + 1
    /\ \E r \in {"ok", "err"} :
         /\ lastKill' = r
         /\ slot' = IF r = "err" THEN taken[t] ELSE slot
         /\ kpc' = [kpc EXCEPT ![t] = AfterKill(r)]
    /\ taken' = [taken EXCEPT ![t] = None]
    /\ UNCHANGED << lockHolder, ksDone, ksNoop, ksTook >>
    /\ UNCHANGED << mainVars, childVars, waitVars, navCount, calls >>

\* let _ = child.kill(): the handle is consumed and the result is dropped
KsKill(t) ==
    /\ kpc[t] = "kill"
    /\ taken[t] # None
    /\ killSignals' = killSignals + 1
    /\ \E r \in {"ok", "err"} :
         /\ lastKill' = r
         /\ kpc' = [kpc EXCEPT ![t] = AfterKill(r)]
    /\ taken' = [taken EXCEPT ![t] = None]
    /\ UNCHANGED << slot, lockHolder, ksDone, ksNoop, ksTook >>
    /\ UNCHANGED << mainVars, childVars, waitVars, navCount, calls >>

\* the guard is dropped at the end of the if-let block
KsUnlock(t) ==
    /\ kpc[t] = "unlock"
    /\ lockHolder' = NoThread
    /\ kpc' = [kpc EXCEPT ![t] = "ret"]
    /\ ksDone' = ksDone + 1
    /\ UNCHANGED << slot, taken, killSignals, lastKill, ksNoop, ksTook >>
    /\ UNCHANGED << mainVars, childVars, waitVars, navCount, calls >>

KsStep(t) ==
    \/ KsLock(t)
    \/ KsTakeRead(t)
    \/ KsTakeWrite(t)
    \/ KsKill(t)
    \/ KsUnlock(t)

(* ------------------------------------------------------------------ *)
(* The child process and the forwarder task of spawn_sidecar.           *)
(* ------------------------------------------------------------------ *)

\* the child ends: killed, or of its own accord
ChildExit ==
    /\ childState = "running"
    /\ childState' = "exited"
    /\ UNCHANGED << fwd, reaps >>
    /\ UNCHANGED << mainVars, killVars, waitVars, navCount, calls >>

\* CommandEvent::Terminated(status) => eprintln; break
FwdTerminated ==
    /\ HostAlive
    /\ fwd = "listening"
    /\ childState = "exited"
    /\ fwd' = "done"
    /\ reaps' = reaps + 1
    /\ UNCHANGED childState
    /\ UNCHANGED << mainVars, killVars, waitVars, navCount, calls >>

\* rx.recv() returns None: the event channel was closed without a
\* Terminated event (for instance after CommandEvent::Error), the
\* `while let` loop ends and the task finishes having handled no exit
FwdClosed ==
    /\ HostAlive
    /\ fwd = "listening"
    /\ childState = "exited"
    /\ fwd' = "done"
    /\ UNCHANGED << childState, reaps >>
    /\ UNCHANGED << mainVars, killVars, waitVars, navCount, calls >>

(* ------------------------------------------------------------------ *)
(* run(): the setup closure, lines 283-323, on the main thread.         *)
(* ------------------------------------------------------------------ *)

\* variant: the command is spawned a second time
SpawnTwice(n) == n + 2

\* command.spawn() creates one child process
SpawnCreates(n) == n + 1

\* variant: a spawn error is propagated out of setup
AfterSpawnAbort(r) == IF r = "ok" THEN "setup_store" ELSE "aborted"

\* Ok(child) => store it; Err(e) => eprintln and continue anyway
AfterSpawn(r) == IF r = "ok" THEN "setup_store" ELSE "setup_thread"

\* match spawn_sidecar(&handle): Ok(child) goes on to the store, Err(e) is
\* logged and setup continues
SetupSpawn ==
    /\ mainPc = "setup_spawn"
    /\ \E r \in SpawnOutcomes :
         /\ spawnResult' = r
         /\ mainPc' = AfterSpawn(r)
         /\ IF r = "ok"
              THEN /\ spawnCount' = SpawnCreates(spawnCount)
                   /\ childState' = "running"
                   /\ fwd' = "listening"
              ELSE UNCHANGED << spawnCount, childState, fwd >>
    /\ UNCHANGED << platform, window, exitReq, quits, trayBuilt, slotEverSome,
                    exitEarly, reaps >>
    /\ UNCHANGED << killVars, waitVars, navCount, calls >>

\* *state.0.lock().unwrap() = Some(child): lock, store and unlock in one
\* statement
SetupStore ==
    /\ mainPc = "setup_store"
    /\ LockFree(lockHolder)
    /\ slot' = spawnCount
    /\ slotEverSome' = TRUE
    /\ mainPc' = "setup_thread"
    /\ UNCHANGED << platform, spawnResult, spawnCount, window, exitReq, quits,
                    trayBuilt, exitEarly >>
    /\ UNCHANGED << lockHolder, kpc, taken, killSignals, lastKill, ksDone,
                    ksNoop, ksTook >>
    /\ UNCHANGED << childVars, waitVars, navCount, calls >>

\* variant: the readiness thread is started before the child is stored
SetupThreadEarly ==
    /\ mainPc \in {"setup_store", "setup_thread"}
    /\ rpc = "none"
    /\ rpc' = "check"
    /\ elapsed' = 0
    /\ timeout' = RunTimeoutTicks
    /\ mainPc' = IF mainPc = "setup_store" THEN "setup_store" ELSE "setup_tray"
    /\ UNCHANGED << connOk, probed, waitResult, navCount >>
    /\ UNCHANGED << platform, spawnResult, spawnCount, window, exitReq, quits,
                    trayBuilt, slotEverSome, exitEarly >>
    /\ UNCHANGED << killVars, childVars, calls >>

\* std::thread::spawn(move || match wait_for_server(DEFAULT_PORT, 15 s) ..):
\* the thread starts at let start = Instant::now()
SetupThread ==
    /\ mainPc = "setup_thread"
    /\ rpc = "none"
    /\ rpc' = "check"
    /\ elapsed' = 0
    /\ timeout' = RunTimeoutTicks
    /\ mainPc' = "setup_tray"
    /\ UNCHANGED << connOk, probed, waitResult, navCount >>
    /\ UNCHANGED << platform, spawnResult, spawnCount, window, exitReq, quits,
                    trayBuilt, slotEverSome, exitEarly >>
    /\ UNCHANGED << killVars, childVars, calls >>

\* setup_tray(&handle)?; Ok(()): an Err leaves the closure, and the host
\* never enters its event handling
SetupTray ==
    /\ mainPc = "setup_tray"
    /\ \E ok \in BOOLEAN :
         /\ trayBuilt' = ok
         /\ mainPc' = IF ok THEN "loop" ELSE "aborted"
    /\ UNCHANGED << platform, spawnResult, spawnCount, window, exitReq, quits,
                    slotEverSome, exitEarly >>
    /\ UNCHANGED << killVars, childVars, waitVars, navCount, calls >>

(* ------------------------------------------------------------------ *)
(* Event handlers on the main thread.                                   *)
(* ------------------------------------------------------------------ *)

\* variant: app.exit(0) is called before kill_sidecar
TrayQuitExitsFirst ==
    /\ mainPc = "loop"
    /\ trayBuilt
    /\ quits < MaxQuit
    /\ quits' = quits + 1
    /\ mainPc' = "quit"
    /\ exitReq' = IF exitReq = "none" THEN "quit" ELSE exitReq
    /\ kpc' = [kpc EXCEPT ![Main] = IF StateManaged THEN "lock" ELSE "ret"]
    /\ calls' = [calls EXCEPT ![Main] = @ + 1]
    /\ UNCHANGED << platform, spawnResult, spawnCount, window,
                    trayBuilt, slotEverSome, exitEarly >>
    /\ UNCHANGED << slot, lockHolder, taken, killSignals, lastKill, ksDone,
                    ksNoop, ksTook >>
    /\ UNCHANGED << childVars, waitVars, navCount >>

\* "quit" => if let Some(state) = app.try_state() { kill_sidecar(&state) }
TrayQuit ==
    /\ mainPc = "loop"
    /\ trayBuilt
    /\ quits < MaxQuit
    /\ quits' = quits + 1
    /\ mainPc' = "quit"
    /\ kpc' = [kpc EXCEPT ![Main] = IF StateManaged THEN "lock" ELSE "ret"]
    /\ calls' = [calls EXCEPT ![Main] = @ + 1]
    /\ UNCHANGED << platform, spawnResult, spawnCount, window, exitReq,
                    trayBuilt, slotEverSome, exitEarly >>
    /\ UNCHANGED << slot, lockHolder, taken, killSignals, lastKill, ksDone,
                    ksNoop, ksTook >>
    /\ UNCHANGED << childVars, waitVars, navCount >>

\* app.exit(0): asks the event loop to exit; the request is queued
QuitExit ==
    /\ mainPc = "quit"
    /\ kpc[Main] = "ret"
    /\ exitReq' = IF exitReq = "none" THEN "quit" ELSE exitReq
    /\ kpc' = [kpc EXCEPT ![Main] = "idle"]
    /\ mainPc' = "loop"
    /\ UNCHANGED << platform, spawnResult, spawnCount, window, quits,
                    trayBuilt, slotEverSome, exitEarly >>
    /\ UNCHANGED << slot, lockHolder, taken, killSignals, lastKill, ksDone,
                    ksNoop, ksTook >>
    /\ UNCHANGED << childVars, waitVars, navCount, calls >>

\* "open" => unminimize, show, set_focus on the main window if it exists
TrayOpen ==
    /\ mainPc = "loop"
    /\ trayBuilt
    /\ window = "hidden"
    /\ window' = "visible"
    /\ UNCHANGED << platform, mainPc, spawnResult, spawnCount, exitReq, quits,
                    trayBuilt, slotEverSome, exitEarly >>
    /\ UNCHANGED << killVars, childVars, waitVars, navCount, calls >>

\* variant: the hide branch is compiled out everywhere
CloseHidesNever(p) == FALSE

\* #[cfg(target_os = "macos")] { window.hide(); api.prevent_close(); }
CloseHides(p) == p = "macos"

\* on_window_event, WindowEvent::CloseRequested: hidden on macOS; elsewhere
\* the close goes through, and the framework asks to exit when its last
\* window is gone
WindowCloseRequested ==
    /\ mainPc = "loop"
    /\ window = "visible"
    /\ IF CloseHides(platform)
         THEN /\ window' = "hidden"
              /\ exitReq' = exitReq
         ELSE /\ window' = "destroyed"
              /\ exitReq' = IF exitReq = "none" THEN "close" ELSE exitReq
    /\ UNCHANGED << platform, mainPc, spawnResult, spawnCount, quits,
                    trayBuilt, slotEverSome, exitEarly >>
    /\ UNCHANGED << killVars, childVars, waitVars, navCount, calls >>

\* the framework or the operating system asks the application to exit
FrameworkExit ==
    /\ mainPc = "loop"
    /\ exitReq = "none"
    /\ exitReq' = "os"
    /\ UNCHANGED << platform, mainPc, spawnResult, spawnCount, window, quits,
                    trayBuilt, slotEverSome, exitEarly >>
    /\ UNCHANGED << killVars, childVars, waitVars, navCount, calls >>

\* RunEvent::ExitRequested => if let Some(state) = app.try_state() {
\* kill_sidecar(&state) }
ExitRequested ==
    /\ mainPc = "loop"
    /\ exitReq # "none"
    /\ mainPc' = "exitreq"
    /\ kpc' = [kpc EXCEPT ![Main] = IF StateManaged THEN "lock" ELSE "ret"]
    /\ calls' = [calls EXCEPT ![Main] = @ + 1]
    /\ exitEarly' = (exitEarly \/ (spawnResult = "ok" /\ waitResult = "none"))
    /\ UNCHANGED << platform, spawnResult, spawnCount, window, exitReq, quits,
                    trayBuilt, slotEverSome >>
    /\ UNCHANGED << slot, lockHolder, taken, killSignals, lastKill, ksDone,
                    ksNoop, ksTook >>
    /\ UNCHANGED << childVars, waitVars, navCount >>

\* the handler returns without preventing the exit: the run loop is left
ExitReturn ==
    /\ mainPc = "exitreq"
    /\ kpc[Main] = "ret"
    /\ mainPc' = "exited"
    /\ kpc' = [kpc EXCEPT ![Main] = "idle"]
    /\ UNCHANGED << platform, spawnResult, spawnCount, window, exitReq, quits,
                    trayBuilt, slotEverSome, exitEarly >>
    /\ UNCHANGED << slot, lockHolder, taken, killSignals, lastKill, ksDone,
                    ksNoop, ksTook >>
    /\ UNCHANGED << childVars, waitVars, navCount, calls >>

\* kill_sidecar running on the main thread, inside a handler
MainKill == mainPc \in {"quit", "exitreq"} /\ KsStep(Main)

Next ==
    \/ SetupSpawn
    \/ SetupStore
    \/ SetupThread
    \/ SetupTray
    \/ TrayQuit
    \/ QuitExit
    \/ TrayOpen
    \/ WindowCloseRequested
    \/ FrameworkExit
    \/ ExitRequested
    \/ ExitReturn
    \/ MainKill
    \/ ThreadNext
    \/ ChildExit
    \/ FwdTerminated
    \/ FwdClosed

Spec == Init /\ [][Next]_vars

(* ------------------------------------------------------------------ *)
(* SpecWait: wait_for_server alone, its timeout drawn from a small set  *)
(* that includes the 15 s run() passes.                                 *)
(* ------------------------------------------------------------------ *)

TimeoutInputs == (0..MaxTimeoutTicks) \cup {RunTimeoutTicks}

InitWait ==
    /\ platform \in Platforms
    /\ mainPc = "setup_tray"
    /\ slot = None
    /\ lockHolder = NoThread
    /\ kpc = [t \in Threads |-> "idle"]
    /\ taken = [t \in Threads |-> None]
    /\ calls = [t \in Threads |-> 0]
    /\ spawnResult = "err_spawn"
    /\ spawnCount = 0
    /\ childState = "none"
    /\ killSignals = 0
    /\ lastKill = "none"
    /\ fwd = "none"
    /\ reaps = 0
    /\ window = "visible"
    /\ exitReq = "none"
    /\ quits = 0
    /\ trayBuilt = FALSE
    /\ rpc = "check"
    /\ elapsed = 0
    /\ timeout \in TimeoutInputs
    /\ connOk = FALSE
    /\ probed = FALSE
    /\ waitResult = "none"
    /\ navCount = 0
    /\ ksDone = 0
    /\ ksNoop = 0
    /\ ksTook = 0
    /\ slotEverSome = FALSE
    /\ exitEarly = FALSE

SpecWait == InitWait /\ [][WaitNext]_vars

\* the readiness thread is an OS thread of its own: it is scheduled while it
\* has a step to take, and connects and sleeps complete
SpecWaitFair == InitWait /\ [][WaitNext]_vars /\ WF_vars(WaitNext)

(* ------------------------------------------------------------------ *)
(* SpecConc: kill_sidecar called from several threads at once, from     *)
(* the state setup leaves behind.                                       *)
(* ------------------------------------------------------------------ *)

InitConc ==
    /\ platform \in Platforms
    /\ mainPc = "loop"
    /\ \E r \in SpawnOutcomes :
         /\ spawnResult = r
         /\ spawnCount = (IF r = "ok" THEN 1 ELSE 0)
         /\ slot = (IF r = "ok" THEN 1 ELSE None)
         /\ slotEverSome = (r = "ok")
         /\ childState = (IF r = "ok" THEN "running" ELSE "none")
         /\ fwd = (IF r = "ok" THEN "listening" ELSE "none")
    /\ lockHolder = NoThread
    /\ kpc = [t \in Threads |-> "idle"]
    /\ taken = [t \in Threads |-> None]
    /\ calls = [t \in Threads |-> 0]
    /\ killSignals = 0
    /\ lastKill = "none"
    /\ reaps = 0
    /\ window = "visible"
    /\ exitReq = "none"
    /\ quits = 0
    /\ trayBuilt = TRUE
    /\ rpc = "check"
    /\ elapsed = 0
    /\ timeout = RunTimeoutTicks
    /\ connOk = FALSE
    /\ probed = FALSE
    /\ waitResult = "none"
    /\ navCount = 0
    /\ ksDone = 0
    /\ ksNoop = 0
    /\ ksTook = 0
    /\ exitEarly = FALSE

\* a thread enters kill_sidecar(&state)
CallerCall(t) ==
    /\ kpc[t] = "idle"
    /\ calls[t] < MaxCalls
    /\ calls' = [calls EXCEPT ![t] = @ + 1]
    /\ kpc' = [kpc EXCEPT ![t] = IF StateManaged THEN "lock" ELSE "ret"]
    /\ UNCHANGED << slot, lockHolder, taken, killSignals, lastKill, ksDone,
                    ksNoop, ksTook >>
    /\ UNCHANGED << mainVars, childVars, waitVars, navCount >>

\* kill_sidecar returns to its caller
CallerReturn(t) ==
    /\ kpc[t] = "ret"
    /\ kpc' = [kpc EXCEPT ![t] = "idle"]
    /\ UNCHANGED << slot, lockHolder, taken, killSignals, lastKill, ksDone,
                    ksNoop, ksTook >>
    /\ UNCHANGED << mainVars, childVars, waitVars, navCount, calls >>

CallerNext == \E t \in Callers : CallerCall(t) \/ KsStep(t) \/ CallerReturn(t)

NextConc == CallerNext \/ ChildExit \/ FwdTerminated \/ FwdClosed

SpecConc == InitConc /\ [][NextConc]_vars

(* ================================================================== *)
(* Properties.                                                          *)
(* ================================================================== *)

\* the main thread is not inside kill_sidecar
MainOutsideKill == kpc[Main] \in {"idle", "ret"}

\* no concurrent caller is inside kill_sidecar
CallersOutsideKill == \A t \in Callers : kpc[t] \in {"idle", "ret"}

(* C1: no leak on exit.  Once the host has left its run loop (by tray    *)
(* Quit, by a framework exit request or by a window close that leads to  *)
(* an exit) the slot is None, and the child spawned on this run, if any, *)
(* has been sent a kill signal.                                          *)
NoLeakOnExit ==
    mainPc = "exited" =>
        /\ slot = None
        /\ lockHolder = NoThread
        /\ (spawnCount > 0 => killSignals >= 1)

\* the host has exited after a window close, with its child killed
NoLeakOnExitWitness ==
    /\ mainPc = "exited"
    /\ exitReq = "close"
    /\ spawnCount = 1
    /\ killSignals = 1
    /\ slot = None

(* C2, as claimed: with a child stored in the slot, k >= 1 calls of      *)
(* kill_sidecar result in exactly one kill and exactly one reap of that  *)
(* child, also when the host then leaves its run loop.                   *)
IdempotentTerminateReaps ==
    (slotEverSome /\ ksDone >= 1 /\ mainPc = "exited") =>
        (killSignals = 1 /\ reaps = 1)

(* C2, amended: with a child stored in the slot, k >= 1 calls of         *)
(* kill_sidecar in sequence make exactly one kill: one call takes the    *)
(* child, every other call finds the slot empty and does nothing.        *)
(* kill_sidecar does not wait for the child: its termination is handled  *)
(* at most once, by the forwarder task, only after the child has ended,  *)
(* and not at all when the event channel closes without a Terminated     *)
(* event.                                                                *)
IdempotentTerminate ==
    /\ killSignals <= 1
    /\ reaps <= 1
    /\ (reaps = 1 => (fwd = "done" /\ childState = "exited"))
    /\ (slotEverSome /\ ksDone >= 1 /\ MainOutsideKill =>
            /\ killSignals = 1
            /\ ksTook = 1
            /\ ksNoop = ksDone - 1
            /\ slot = None)

\* three calls in sequence (Quit, Quit, ExitRequested), one kill, one reap
IdempotentTerminateWitness ==
    /\ slotEverSome
    /\ ksDone = 3
    /\ ksNoop = 2
    /\ killSignals = 1
    /\ reaps = 1

(* C3: under every interleaving of concurrent kill_sidecar calls at most *)
(* one caller takes Some(child) out of the slot and the child is sent    *)
(* the kill signal exactly once; every other caller observes None and    *)
(* does nothing.                                                         *)
ConcurrentTerminateOnce ==
    /\ ksTook <= 1
    /\ killSignals <= 1
    /\ Cardinality({t \in Callers : taken[t] # None}) <= 1
    /\ (slotEverSome /\ ksDone >= 1 /\ CallersOutsideKill =>
            /\ killSignals = 1
            /\ ksNoop = ksDone - 1
            /\ slot = None)

\* one caller has killed the child and still holds the lock while another
\* waits for the lock; an earlier call has already returned
ConcurrentTerminateWitness ==
    \E t \in Callers, u \in Callers :
        /\ t # u
        /\ kpc[t] = "unlock"
        /\ kpc[u] = "lock"
        /\ killSignals = 1
        /\ ksDone >= 1

(* C4: navigate implies ready.  navigate is invoked only after           *)
(* wait_for_server has returned Ok; after a Timeout it is never invoked; *)
(* it is invoked at most once per run.                                   *)
NavigateImpliesReady ==
    /\ navCount <= 1
    /\ (navCount >= 1 => waitResult = "ok")
    /\ (waitResult = "timeout" => navCount = 0)
    /\ (rpc \in {"none", "check", "connect", "sleep", "settle"} => navCount = 0)

\* the webview has been navigated
NavigateImpliesReadyWitness ==
    /\ navCount = 1
    /\ waitResult = "ok"
    /\ rpc = "done"

(* C5, as claimed: whenever the webview has been navigated, the slot     *)
(* held a ChildHandle earlier and a TCP connect had succeeded.           *)
NavigatedImpliesSlotHeld ==
    navCount >= 1 => (slotEverSome /\ connOk)

(* C5, amended: whenever the webview has been navigated a TCP connect to *)
(* 127.0.0.1:P had succeeded, and the slot held a ChildHandle earlier    *)
(* unless spawn_sidecar failed (a server started separately is adopted). *)
NavigatedImpliesConnected ==
    navCount >= 1 =>
        /\ connOk
        /\ (spawnResult = "ok" => slotEverSome)
        /\ (slotEverSome => spawnResult = "ok")

\* navigated with the child's handle stored earlier
NavigatedImpliesConnectedWitness ==
    /\ navCount = 1
    /\ connOk
    /\ spawnResult = "ok"
    /\ slotEverSome

(* C6: single child.  The slot holds no ChildHandle or exactly one, and  *)
(* spawn_sidecar creates at most one child process in the host's         *)
(* lifetime.                                                             *)
SingleChild ==
    /\ slot \in {None, 1}
    /\ spawnCount <= 1
    /\ (slot # None => slot = spawnCount)
    /\ (spawnResult # "ok" => spawnCount = 0)

\* the one child is in the slot
SingleChildWitness ==
    /\ slot = 1
    /\ spawnCount = 1
    /\ mainPc = "loop"

(* C7, as claimed: wait_for_server(P, T) returns no later than T + 1 s   *)
(* after it was called, and a Timeout is returned between T and T + 1 s. *)
BoundedStartupOneSecond ==
    waitResult # "none" =>
        /\ elapsed <= timeout + ConnectTimeoutTicks
        /\ (waitResult = "timeout" => elapsed >= timeout)

(* C7, amended: wait_for_server(P, T) returns Ok earlier than            *)
(* T + 1 s + 300 ms (the connect budget and the settle delay) and        *)
(* Timeout no earlier than T and earlier than T + 1 s + 200 ms (the      *)
(* connect budget and the poll sleep).                                   *)
BoundedStartup ==
    /\ (waitResult = "ok" =>
            elapsed < timeout + ConnectTimeoutTicks + SettleTicks)
    /\ (waitResult = "timeout" =>
            /\ elapsed >= timeout
            /\ elapsed < timeout + ConnectTimeoutTicks + PollIntervalTicks)

\* with T = 15 s, a Timeout returned at 16.1 s
BoundedStartupWitness ==
    /\ timeout = RunTimeoutTicks
    /\ waitResult = "timeout"
    /\ elapsed = timeout + ConnectTimeoutTicks + 1

(* C8, as claimed: a window close request is turned into hiding the      *)
(* window and never leads to an exit request, on every desktop platform. *)
CloseAlwaysHides ==
    [][WindowCloseRequested => (window' = "hidden" /\ exitReq' = exitReq)]_vars

(* C8, amended: the window-close handler never runs kill_sidecar,        *)
(* changes the slot or sends a kill, and kill_sidecar is entered only    *)
(* from the tray Quit action and the ExitRequested handler; on macOS the *)
(* close is turned into hiding the window and queues no exit request.    *)
CloseNeverTerminates ==
    [][ /\ (WindowCloseRequested =>
                /\ slot' = slot
                /\ killSignals' = killSignals
                /\ kpc' = kpc
                /\ mainPc' = "loop"
                /\ (platform = "macos" =>
                        (window' = "hidden" /\ exitReq' = exitReq)))
        /\ ((kpc[Main] = "idle" /\ kpc'[Main] # "idle") =>
                (TrayQuit \/ ExitRequested))
        /\ (platform = "macos" => exitReq' # "close") ]_vars

\* on macOS the window was closed to hidden and the child is still held
CloseNeverTerminatesWitness ==
    /\ platform = "macos"
    /\ window = "hidden"
    /\ slot = 1
    /\ killSignals = 0
    /\ exitReq = "none"
    /\ mainPc = "loop"

(* C9, as claimed: after an ExitRequested handled before the readiness   *)
(* poller returned, navigate is never invoked.                           *)
ImmediateExitNoNavigate ==
    exitEarly => navCount = 0

(* C9, amended: after an ExitRequested handled before the readiness      *)
(* poller returned, the child has been killed by the time the host       *)
(* leaves its run loop, and navigate is not invoked once the host has    *)
(* left the run loop, nor when the exit came from the main window being  *)
(* closed; while the handler is still running the readiness thread is    *)
(* not cancelled and may navigate once.                                  *)
ImmediateExitKills ==
    [][ /\ ((exitEarly' /\ mainPc' = "exited") =>
                (killSignals' = 1 /\ slot' = None))
        /\ (mainPc = "exited" => (navCount' = navCount /\ rpc' = rpc))
        /\ ((exitEarly' /\ exitReq' = "close") => navCount' = 0) ]_vars

\* the exit arrived during the settle delay; the host has left the run loop
\* and the thread never got to navigate
ImmediateExitKillsWitness ==
    /\ exitEarly
    /\ mainPc = "exited"
    /\ rpc = "settle"
    /\ killSignals = 1
    /\ navCount = 0

(* C10: spawn failure is reported, not raised.  When spawn_sidecar       *)
(* returns an error the slot stays None, setup goes on to start the      *)
(* readiness thread and to set up the tray, and a later kill_sidecar     *)
(* finds the slot empty and sends no kill.                               *)
SpawnFailureContinues ==
    spawnResult \in {"err_command", "err_spawn"} =>
        /\ slot = None
        /\ ~slotEverSome
        /\ spawnCount = 0
        /\ killSignals = 0
        /\ ksTook = 0
        /\ ksNoop >= ksDone
        /\ (mainPc # "setup_thread" => rpc # "none")
        /\ (mainPc \in {"loop", "quit", "exitreq", "exited"} => trayBuilt)
        /\ (mainPc = "aborted" => ~trayBuilt)

\* after a failed spawn the thread has probed the port, the tray is up and
\* a kill_sidecar call has come and gone without a kill
SpawnFailureContinuesWitness ==
    /\ spawnResult = "err_spawn"
    /\ probed
    /\ trayBuilt
    /\ ksDone >= 1
    /\ ksNoop = ksDone
    /\ killSignals = 0
    /\ mainPc = "exited"

(* C11: a readiness timeout leaves the child alone.  wait_for_server     *)
(* returning Timeout, and the thread's Err arm, change neither the slot  *)
(* nor the mutex and send no kill; with a spawned child the slot still   *)
(* holds the handle until a terminate runs, and the first terminate      *)
(* after the timeout kills it.                                           *)
TimeoutLeavesChild ==
    [][ /\ (((waitResult = "none" /\ waitResult' = "timeout") \/ ThreadErr) =>
                /\ slot' = slot
                /\ lockHolder' = lockHolder
                /\ kpc' = kpc
                /\ killSignals' = killSignals
                /\ childState' = childState)
        /\ ((waitResult' = "timeout" /\ spawnResult' = "ok"
                /\ calls'[Main] = 0) =>
                (slot' = 1 /\ killSignals' = 0))
        /\ ((waitResult' = "timeout" /\ spawnResult' = "ok"
                /\ ksDone' >= 1 /\ MainOutsideKill') =>
                (slot' = None /\ killSignals' = 1)) ]_vars

\* the poller has timed out and logged it; the child is still in the slot
TimeoutLeavesChildWitness ==
    /\ waitResult = "timeout"
    /\ rpc = "done"
    /\ slot = 1
    /\ killSignals = 0
    /\ childState = "running"
    /\ mainPc = "loop"

(* C12, as claimed: the slot's mutex is never held while the kill of the *)
(* child is in progress; in kill_sidecar the lock is released before the *)
(* kill signal is sent.                                                  *)
LockReleasedBeforeKill ==
    \A t \in Threads : kpc[t] = "kill" => lockHolder = NoThread

(* C13: terminate failure.  Every kill_sidecar that found a child in the *)
(* slot attempts the kill; when child.kill() returns an error the slot   *)
(* is None all the same, and kill_sidecar goes on to return to its       *)
(* handler without ending the host.                                      *)
TerminateFailureDrains ==
    [][ /\ (killSignals' # killSignals =>
                /\ killSignals' = killSignals + 1
                /\ kpc'[Main] = "unlock"
                /\ slot' = None)
        /\ (lastKill' = "err" =>
                /\ slot' = None
                /\ mainPc' \in {"quit", "loop", "exitreq", "exited"}
                /\ kpc'[Main] \in {"idle", "lock", "take", "take_write",
                                   "unlock", "ret"})
        /\ (MainOutsideKill' =>
                (killSignals' = ksTook' /\ ksDone' = calls'[Main])) ]_vars

\* the kill failed, the slot is empty and kill_sidecar has returned
TerminateFailureDrainsWitness ==
    /\ lastKill = "err"
    /\ slot = None
    /\ kpc[Main] = "ret"
    /\ ksDone = 1
    /\ killSignals = 1

(* C14: the slot's lifecycle is monotone.  It starts None, becomes Some  *)
(* once only, by the store in setup after a successful spawn, becomes    *)
(* None only by the take in kill_sidecar, and once a kill_sidecar has    *)
(* drained it no later step stores a handle in it again.                 *)
SlotLifecycle ==
    [][ /\ (spawnResult = "none" => slot = None)
        /\ ((slot = None /\ slot' # None) =>
                (SetupStore /\ ~slotEverSome /\ ksTook = 0))
        /\ ((slot # None /\ slot' = None) => KsTakeWrite(Main))
        /\ (slotEverSome => slotEverSome')
        /\ (ksTook >= 1 => (slot = None /\ slot' = None)) ]_vars

\* drained by the first Quit, still empty after a second terminate
SlotLifecycleWitness ==
    /\ slotEverSome
    /\ slot = None
    /\ ksTook = 1
    /\ ksDone = 2
    /\ lastKill = "err"
    /\ mainPc = "loop"

(* C15: after a successful spawn the child handle is stored in the slot  *)
(* before the readiness thread is started, so the first terminate that   *)
(* runs once the thread exists finds the handle in the slot.             *)
StoreBeforeThread ==
    /\ (mainPc = "setup_store" => rpc = "none")
    /\ ((spawnResult = "ok" /\ rpc # "none") =>
            /\ slotEverSome
            /\ (ksTook = 0 => slot = 1)
            /\ (ksNoop >= 1 => ksTook = 1))

\* the thread is probing while the first terminate holds the handle it took
StoreBeforeThreadWitness ==
    /\ spawnResult = "ok"
    /\ rpc = "connect"
    /\ kpc[Main] = "kill"
    /\ taken[Main] = 1
    /\ ksNoop = 0

(* C16: wait_for_server returns Ok exactly when a connect it started     *)
(* while elapsed < timeout succeeded, and then after the 300 ms settle   *)
(* delay; it returns Timeout only at the loop head with elapsed >=       *)
(* timeout and no attempt having succeeded; it starts no connect once    *)
(* elapsed >= timeout (none at all with timeout 0); after each failed    *)
(* attempt it sleeps 200 ms before it tests the deadline again.          *)
WaitForServerResult ==
    [][ /\ ((waitResult = "none" /\ waitResult' = "ok") =>
                /\ rpc = "settle"
                /\ connOk
                /\ elapsed' = elapsed + SettleTicks)
        /\ ((waitResult = "none" /\ waitResult' = "timeout") =>
                /\ rpc = "check"
                /\ elapsed >= timeout
                /\ elapsed' = elapsed
                /\ ~connOk)
        /\ ((waitResult' = "ok") <=> (connOk' /\ rpc' = "ret_ok"))
        /\ ((~connOk /\ connOk') =>
                (rpc = "connect" /\ elapsed < timeout /\ rpc' = "settle"))
        /\ (connOk' => rpc' \in {"settle", "ret_ok"})
        /\ (rpc' = "connect" => (rpc = "check" /\ elapsed < timeout))
        /\ ((rpc = "connect" /\ ~connOk') => rpc' = "sleep")
        /\ (rpc = "sleep" =>
                (rpc' = "check" /\ elapsed' = elapsed + PollIntervalTicks))
        /\ (rpc' = "check" => rpc = "sleep")
        /\ (timeout = 0 => (~probed' /\ waitResult' = "timeout")) ]_vars

\* Ok returned past the deadline: the connect began before it and succeeded
WaitForServerResultWitness ==
    /\ waitResult = "ok"
    /\ connOk
    /\ rpc = "ret_ok"
    /\ timeout = RunTimeoutTicks
    /\ elapsed > timeout

(* C17: on the tray Quit path kill_sidecar runs before the exit is       *)
(* requested: when app.exit(0) is called the child has been taken from   *)
(* the slot and sent the kill, and the kill_sidecar of the ExitRequested *)
(* that follows finds the slot empty and sends no second kill.           *)
QuitKillsBeforeExit ==
    exitReq = "quit" =>
        /\ slot = None
        /\ kpc[Main] # "kill"
        /\ taken[Main] = None
        /\ (slotEverSome => (killSignals = 1 /\ ksTook = 1))
        /\ (mainPc = "exited" => ksNoop >= 1)

\* one Quit, then the exit it requested: one kill, one empty-handed call
QuitKillsBeforeExitWitness ==
    /\ exitReq = "quit"
    /\ mainPc = "exited"
    /\ quits = 1
    /\ killSignals = 1
    /\ ksNoop = 1
    /\ ksDone = 2

(* C18: the readiness thread never acquires the slot's mutex and never   *)
(* reads or writes the slot: none of its steps changes the slot, the     *)
(* mutex or a kill_sidecar in progress, it is never the lock's holder,   *)
(* it can always take its next step whoever holds the lock, and at the   *)
(* loop head it goes on to connect exactly when elapsed < timeout,       *)
(* whatever the slot holds and whether or not the child is alive.        *)
ReadinessIgnoresSlot ==
    [][ /\ (ThreadNext =>
                /\ slot' = slot
                /\ lockHolder' = lockHolder
                /\ kpc' = kpc
                /\ taken' = taken
                /\ killSignals' = killSignals)
        /\ lockHolder \in {NoThread, Main}
        /\ ((HostAlive /\ rpc \notin {"none", "done"}) => ENABLED ThreadNext)
        /\ ((rpc = "check" /\ rpc' # "check") =>
                /\ (rpc' = "connect" <=> elapsed < timeout)
                /\ (rpc' = "ret_err" <=> elapsed >= timeout)) ]_vars

\* the thread sleeps between probes while the main thread holds the lock on
\* the drained slot and the child is dead
ReadinessIgnoresSlotWitness ==
    /\ rpc = "sleep"
    /\ lockHolder = Main
    /\ slot = None
    /\ slotEverSome
    /\ childState = "exited"

(* C19: wait_for_server always terminates.  With the thread scheduled    *)
(* and every connect back within its 1 s budget, each call eventually    *)
(* returns Ok or Timeout, whatever the connects answer.                  *)
WaitTerminates == <>(waitResult # "none")

\* the server never accepted and the 15 s call has returned Timeout
WaitTerminatesWitness ==
    /\ timeout = RunTimeoutTicks
    /\ waitResult = "timeout"
    /\ probed
    /\ ~connOk

(* C20: a kill is only ever sent to a handle that has been removed from  *)
(* the slot: whenever a thread is about to call child.kill(), and in     *)
(* every state in which a kill has been sent, the slot is None.          *)
KillOnlyAfterTake ==
    /\ (killSignals >= 1 => slot = None)
    /\ \A t \in Threads : kpc[t] = "kill" => (slot = None /\ taken[t] = 1)
    /\ \A t \in Threads : taken[t] # None => kpc[t] \in {"take_write", "kill"}

\* the kill has just been sent; the slot was emptied before it
KillOnlyAfterTakeWitness ==
    /\ killSignals = 1
    /\ slot = None
    /\ kpc[Main] = "unlock"
    /\ lockHolder = Main
    /\ ksDone = 0

====
